---- MODULE Spec2Model ----
(***************************************************************************)
(* Dispatch / session coordination layer of the ambulance server:          *)
(* the socket.io handlers of the /driver and /client namespaces, the two   *)
(* in-memory maps activeDrivers and pendingRequests, and the Ambulance and *)
(* EmergencyRequest collections they read and write.                       *)
(*                                                                         *)
(* Every handler is an async function.  It runs synchronously up to an     *)
(* await of a store operation, the store executes the operation, and the   *)
(* continuation runs later; segments of different handlers (also of the    *)
(* same connection) interleave at these points.  The arrival of an event  *)
(* runs the handler to its first await, where the store operation is       *)
(* issued; the execution of the operation by the store is a step of its    *)
(* own, as is each continuation.  A store operation either                 *)
(* succeeds or throws.  Timestamps (lastUpdated, createdAt) are left out,  *)
(* and so is discount, which is no path of the Ambulance schema.           *)
(*                                                                         *)
(* handlers holds the invocations that are suspended at an await, each     *)
(* with the messages it has emitted so far; finished holds the invocation  *)
(* that returned in the last step, so that what a handler has done by the  *)
(* time it returns can be stated about the state it returns in.            *)
(***************************************************************************)
EXTENDS Integers, FiniteSets, Bags, Sequences

\* ---------------------------------------------------------------- bounds
MaxHandlers == 3

\* ------------------------------------------------------------ input sets
Drivers == {"d1", "d2"}
Clients == {"c1"}
Conn == Drivers \cup Clients

Null == "null"
Missing == "undefined"

\* vehicleId values that have an Ambulance record, and those drivers send
Vehicles == {"v1", "v2"}
VehicleIds == Vehicles \cup {"v0"}
\* what generateVehicleId() can return
GeneratedVehicleIds == {"AMB-1"}
\* POST /register: the email of the body, and its userType
Emails == {"e1"}
UserTypeInputs == {Missing, "ambulance"}
Http == "http"
HashError == "HashError"

\* _id values of EmergencyRequest documents (requestData.userId._id)
ReqIds == {"r1", "r2"}

VehicleStatusInputs == {"available", "offline", "at_hospital", "", "0e2"}
\* statuses that are no strings: false, true, 0, -0, [] and [0]
OtherStatusInputs ==
  {<<"boolean", "false">>, <<"boolean", "true">>, <<"number", "0">>,
   <<"number", "-0">>, <<"array", "">>, <<"array", "0">>}
RequestStatusInputs == {"in_progress", "cancelled"}
\* patientCount and criticalLevel of an emergency-request; "extreme" is not in
\* the enum of the schema
PatientCountInputs == {Missing, "3"}
CriticalLevelInputs == {Missing, "high", "extreme"}
CriticalLevels == {"low", "medium", "high", "critical"}

Latitudes == {"37.0"}
Longitudes == {"-122.0"}

StoreError == "StoreError"
RequestUnavailable == "Request no longer available"

VARIABLES
  conns,            \* socket of each connection: "open" or "closed"
  User,             \* the User collection: number of records by email
  Ambulance,        \* the Ambulance collection, by vehicleId
  EmergencyRequest, \* the EmergencyRequest collection, by _id
  activeDrivers,    \* Map socket.id -> driver data
  pendingRequests,  \* Map request id -> cached request with socketId
  rooms,            \* members of room emergency-<request id>
  handlers,         \* bag of the handler invocations in flight
  finished,         \* the invocation that returned in the last step, if any
  started           \* number of invocations so far

vars == <<conns, User, Ambulance, EmergencyRequest, activeDrivers,
          pendingRequests,
          rooms, handlers, finished, started>>

\* ------------------------------------------------------------- messages
Msg(ev, to, arg) ==
  [ev |-> ev, to |-> to, arg |-> arg, ids |-> {},
   latitude |-> Null, longitude |-> Null]

\* --------------------------------------------------------- handler state
NewHandler(c, op) ==
  [conn |-> c, op |-> op, pc |-> "start", result |-> Null,
   requestId |-> Null, vehicleId |-> Null,
   statusType |-> Null, status |-> Null,
   latitude |-> Null, longitude |-> Null,
   userId |-> Null, location |-> Null,
   patientCount |-> Null, criticalLevel |-> Null,
   email |-> Null, userType |-> Null,
   found |-> {}, out |-> {}]

NoHandler == NewHandler(Null, Null)

InFlight == BagToSet(handlers)

CanStart == started < MaxHandlers

\* an invocation reaches its first await
Start(h) ==
  /\ handlers' = handlers (+) SetToBag({h})
  /\ finished' = NoHandler
  /\ started' = started + 1

\* an invocation returns before any await
StartFinish(h) ==
  /\ handlers' = handlers
  /\ finished' = [h EXCEPT !.pc = "done"]
  /\ started' = started + 1

\* an invocation moves from one await to the next
Step(h, h2) ==
  /\ handlers' = (handlers (-) SetToBag({h})) (+) SetToBag({h2})
  /\ finished' = NoHandler
  /\ started' = started

\* an invocation returns
Finish(h, h2) ==
  /\ handlers' = handlers (-) SetToBag({h})
  /\ finished' = [h2 EXCEPT !.pc = "done"]
  /\ started' = started

Emit(h, m) == [h EXCEPT !.out = @ \cup {m}]

\* Map.set, Map.delete, Map.has
MapSet(m, k, v) == [x \in DOMAIN m \cup {k} |-> IF x = k THEN v ELSE m[x]]

\* variant: deleting a key that is absent empties the map
MapDelete_Clears(m, k) ==
  IF k \in DOMAIN m THEN [x \in DOMAIN m \ {k} |-> m[x]]
  ELSE [x \in {} |-> m[x]]

MapDelete(m, k) == [x \in DOMAIN m \ {k} |-> m[x]]

MapHas(m, k) == k \in DOMAIN m

Suspended(h, op, pc) ==
  /\ BagIn(h, handlers)
  /\ h.op = op
  /\ h.pc = pc

\* ------------------------------------------------------------ the store
\* variant: find() without the status filter
FindPending_All(coll) == DOMAIN coll

\* EmergencyRequest.find({status: "pending"})
FindPending(coll) ==
  {r \in DOMAIN coll : coll[r].status = "pending"}

\* Ambulance.find({status: {$ne: "offline"}})
FindActive(coll) ==
  {v \in DOMAIN coll : coll[v].status # "offline"}

\* Ambulance.findOneAndUpdate({vehicleId}, {status}, {new: true})
AmbulanceSetStatus(coll, v, s) ==
  IF v \in DOMAIN coll THEN [coll EXCEPT ![v].status = s] ELSE coll

\* Ambulance.findOneAndUpdate({vehicleId}, {currentLocation.*})
AmbulanceSetLocation(coll, v, lat, lon) ==
  IF v \in DOMAIN coll
  THEN [coll EXCEPT ![v].latitude = lat, ![v].longitude = lon]
  ELSE coll

\* what findOneAndUpdate resolves to: the document, or null
AmbulanceFound(coll, v) == IF v \in DOMAIN coll THEN "doc" ELSE Null

\* what findByIdAndUpdate resolves to: the document, or null
RequestFound(coll, r) == IF r \in DOMAIN coll THEN "doc" ELSE Null

\* EmergencyRequest.findByIdAndUpdate(id, {status: "accepted", ambulanceId})
RequestSetAccepted(coll, r, v) ==
  IF r \in DOMAIN coll
  THEN [coll EXCEPT ![r].status = "accepted", ![r].ambulanceId = v]
  ELSE coll

\* variant: a request that is cancelled or completed is left as it is
RequestSetStatus_Checked(coll, r, s) ==
  IF r \in DOMAIN coll /\ coll[r].status \notin {"cancelled", "completed"}
  THEN [coll EXCEPT ![r].status = s]
  ELSE coll

\* EmergencyRequest.findByIdAndUpdate(id, {status})
RequestSetStatus(coll, r, s) ==
  IF r \in DOMAIN coll THEN [coll EXCEPT ![r].status = s] ELSE coll

\* variant: the default replaces a value that was supplied
ApplyDefault_Always(value, default) == default

\* a schema default: applied to a path that is undefined
ApplyDefault(value, default) == IF value = Missing THEN default ELSE value

\* the enum validator of criticalLevel, run by save() on a value that is set
ValidCriticalLevel(criticalLevel) ==
  criticalLevel = Missing \/ criticalLevel \in CriticalLevels

\* new EmergencyRequest({...status: "pending", _id: userId._id})
NewRequest(userId, patientCount, criticalLevel) ==
  [status |-> "pending", ambulanceId |-> Null, requesterId |-> userId,
   patientCount |-> ApplyDefault(patientCount, "1"),
   criticalLevel |-> ApplyDefault(criticalLevel, "medium")]

\* ------------------------------------------------------------------ Init
\* The maps are empty and no handler has run.  The sockets are connected:
\* the connection callbacks only register the handlers, so a socket that
\* connects later behaves as one that is connected and idle.  The Ambulance
\* collection holds the vehicles created by /register, status "offline".
Init ==
  /\ conns = [c \in Conn |-> "open"]
  /\ User = [e \in Emails |-> 0]
  /\ Ambulance = [v \in Vehicles |->
                    [status |-> "offline", latitude |-> Null,
                     longitude |-> Null]]
  /\ EmergencyRequest = [r \in {} |-> Null]
  /\ activeDrivers = [d \in {} |-> Null]
  /\ pendingRequests = [r \in {} |-> Null]
  /\ rooms = [r \in ReqIds |-> {}]
  /\ handlers = EmptyBag
  /\ finished = NoHandler
  /\ started = 0

\* ---- Number(s) = 0 for a string s (StringToNumber)
Char(s, i) == SubSeq(s, i, i)
Chars(s) == {Char(s, i) : i \in 1..Len(s)}

\* the white space and line terminators StringToNumber strips: tab, vertical
\* tab, form feed, space, no-break space, U+FEFF, U+1680, line feed and
\* carriage return.  The others (U+2000 to U+200A, U+2028, U+2029, U+202F,
\* U+205F, U+3000) are characters no string of a module can hold.
StrWhiteSpaceChars ==
  {"\t", "", "\f", " ", " ", "﻿", " ", "\n", "\r"}

DecimalDigits == <<"0", "1", "2", "3", "4", "5", "6", "7", "8", "9">>
DigitValue(c) == CHOOSE n \in 0..9 : DecimalDigits[n + 1] = c
IsDigit(c) == \E n \in 1..10 : DecimalDigits[n] = c
AllDigits(s) == \A i \in 1..Len(s) : IsDigit(Char(s, i))

\* the string without the white space at its two ends
Trim(s) ==
  LET inner == {i \in 1..Len(s) : Char(s, i) \notin StrWhiteSpaceChars}
  IN IF inner = {} THEN ""
     ELSE SubSeq(s, CHOOSE i \in inner : \A j \in inner : i <= j,
                    CHOOSE i \in inner : \A j \in inner : i >= j)

\* 0x, 0b or 0o and digits that are all 0
ZeroRadixLiteral(t) ==
  /\ Len(t) >= 3
  /\ SubSeq(t, 1, 2) \in {"0x", "0X", "0b", "0B", "0o", "0O"}
  /\ Chars(SubSeq(t, 3, Len(t))) = {"0"}

\* value of a string of digits.  A string has fewer than 2^30 characters,
\* so the first digit that is not 0 lies fewer than 2^30 places from the
\* point: an exponent of 2^30 + 324 or more decides by its sign alone
\* whether the literal underflows, and ExponentCap stands for all of them
ExponentCap == 1073742148
RECURSIVE ShortDigitsValue(_, _)
ShortDigitsValue(s, acc) ==
  IF s = "" THEN acc
  ELSE IF acc > ExponentCap \div 10 THEN ExponentCap
  ELSE LET v == 10 * acc + DigitValue(Char(s, 1))
       IN ShortDigitsValue(SubSeq(s, 2, Len(s)),
                           IF v > ExponentCap THEN ExponentCap ELSE v)

\* more than ten digits after the leading zeros exceed ExponentCap
DigitsValue(s) ==
  LET nz == {i \in 1..Len(s) : Char(s, i) # "0"}
      first == CHOOSE i \in nz : \A j \in nz : i <= j
  IN IF nz = {} THEN 0
     ELSE IF Len(s) - first + 1 > 10 THEN ExponentCap
     ELSE ShortDigitsValue(SubSeq(s, first, Len(s)), 0)

\* the exponent part after e or E: an optional sign and digits
ExponentValid(e) ==
  LET d == IF Len(e) >= 1 /\ Char(e, 1) \in {"+", "-"}
           THEN SubSeq(e, 2, Len(e)) ELSE e
  IN Len(d) >= 1 /\ AllDigits(d)

ExponentValue(e) ==
  IF e = "" THEN 0
  ELSE IF Char(e, 1) = "-" THEN 0 - DigitsValue(SubSeq(e, 2, Len(e)))
  ELSE IF Char(e, 1) = "+" THEN DigitsValue(SubSeq(e, 2, Len(e)))
  ELSE DigitsValue(e)

\* 2^-1075, half the least positive double, is 5^1075 / 10^1075, that is
\* 2.4703...e-324 with the 752 digits of 5^1075: a decimal of at most this
\* value rounds to 0 (the tie goes to the even neighbour, 0)
HalfMinDigits ==
  "247032822920623272088284396434110686182529901307162382212792"
  \o "841250337753635104375932649918180817996189898282347722858865"
  \o "463328355177969898199387398005390939063150356595155702263922"
  \o "908583924491051844359318028499365361525003193704576782492193"
  \o "656236698636584807570015857692699037063119282795585513329278"
  \o "343384093519780155312465972635795746227664652728272200563740"
  \o "064854999770965994704540208281662262378573934507363390079677"
  \o "619305775067401763246736009689513405355374585166611342237666"
  \o "786041621596804619144672918403005300575308490487653917113865"
  \o "916462395249126236538818796362393732804238910186723484976682"
  \o "350898633885879256283027559956575244555072551893136908362547"
  \o "791869486679949683240497058210285131854513962138377228261454"
  \o "37693412532098591327667236328125"
HalfMinExponent == 0 - 324

\* the digits a, read as d.ddd, are at most the digits b read so
DigitAt(s, i) == IF i <= Len(s) THEN DigitValue(Char(s, i)) ELSE 0

DigitsAtMost(a, b) ==
  LET n == IF Len(a) > Len(b) THEN Len(a) ELSE Len(b)
      diff == {i \in 1..n : DigitAt(a, i) # DigitAt(b, i)}
      first == CHOOSE i \in diff : \A j \in diff : i <= j
  IN diff = {} \/ DigitAt(a, first) < DigitAt(b, first)

\* an unsigned decimal literal (digits, an optional point, an optional
\* exponent) whose value is 0: its digits are all 0, or it underflows
ZeroUnsignedDecimal(t) ==
  LET es == {i \in 1..Len(t) : Char(t, i) \in {"e", "E"}}
      ePos == IF es = {} THEN Len(t) + 1 ELSE CHOOSE i \in es : TRUE
      mant == SubSeq(t, 1, ePos - 1)
      expo == SubSeq(t, ePos + 1, Len(t))
      ds == {i \in 1..Len(mant) : Char(mant, i) = "."}
      dPos == IF ds = {} THEN Len(mant) + 1 ELSE CHOOSE i \in ds : TRUE
      int == SubSeq(mant, 1, dPos - 1)
      frac == SubSeq(mant, dPos + 1, Len(mant))
      digits == int \o frac
      nz == {i \in 1..Len(digits) : Char(digits, i) # "0"}
      first == CHOOSE i \in nz : \A j \in nz : i <= j
      sci == (Len(int) - first) + ExponentValue(expo)
  IN /\ Cardinality(es) <= 1
     /\ es # {} => ExponentValid(expo)
     /\ Cardinality(ds) <= 1
     /\ Len(digits) >= 1
     /\ AllDigits(digits)
     /\ \/ nz = {}
        \/ sci < HalfMinExponent
        \/ /\ sci = HalfMinExponent
           /\ DigitsAtMost(SubSeq(digits, first, Len(digits)), HalfMinDigits)

ZeroDecimalLiteral(t) ==
  IF Len(t) >= 1 /\ Char(t, 1) \in {"+", "-"}
  THEN ZeroUnsignedDecimal(SubSeq(t, 2, Len(t)))
  ELSE ZeroUnsignedDecimal(t)

ConvertsToZero(s) ==
  LET t == Trim(s)
  IN t = "" \/ ZeroRadixLiteral(t) \/ ZeroDecimalLiteral(t)

\* a status of the payload is its type and its text: the string itself, the
\* literal of a boolean or a number, the elements of an array joined by ",";
\* the types are "string", "boolean", "number" and "array"

\* line 83, status == false: false is converted to 0; a boolean is compared
\* as it is, a number with 0, a string or array (through its text) after
\* conversion to a number
LooseFalse(t, s) ==
  IF t = "boolean" THEN s = "false" ELSE ConvertsToZero(s)

\* line 84, status === x for a string x
StrictEquals(t, s, x) == t = "string" /\ s = x

\* the String the schema casts the status to before it is written
CastString(t, s) == IF t = "number" /\ s = "-0" THEN "0" ELSE s

\* ------------------------------------------------- driver: update-status
\* the event arrives: lines 60-78 up to the await, the update issued
UpdateStatus(d, v, t, s) ==
  /\ d \in Drivers
  /\ conns[d] = "open"
  /\ CanStart
  /\ Start([NewHandler(d, "update-status") EXCEPT
              !.pc = "update", !.vehicleId = v,
              !.statusType = t, !.status = s])
  /\ UNCHANGED <<User, conns, Ambulance, EmergencyRequest, activeDrivers,
                 pendingRequests, rooms>>

\* the store executes findOneAndUpdate({vehicleId}, {status}, {new: true})
UpdateStatusUpdate(h) ==
  /\ Suspended(h, "update-status", "update")
  /\ \E ok \in BOOLEAN :
       IF ok
       THEN /\ Ambulance' =
                 AmbulanceSetStatus(Ambulance, h.vehicleId,
                                    CastString(h.statusType, h.status))
            /\ Step(h, [h EXCEPT !.pc = "updated",
                          !.result = AmbulanceFound(Ambulance, h.vehicleId)])
       ELSE /\ Ambulance' = Ambulance
            /\ Step(h, [h EXCEPT !.pc = "threw", !.result = StoreError])
  /\ UNCHANGED <<User, conns, EmergencyRequest, activeDrivers,
                 pendingRequests, rooms>>

\* variant: an entry that exists is not overwritten
UpdateStatusUpdated_KeepsFirst(h) ==
  /\ Suspended(h, "update-status", "updated")
  /\ LET h1 == IF h.result # Null /\ LooseFalse(h.statusType, h.status)
               THEN Emit(h, Msg("remove-ambulance", "clientIo", h.vehicleId))
               ELSE h
     IN /\ activeDrivers' =
             IF h.result = Null THEN activeDrivers
             ELSE IF \/ StrictEquals(h.statusType, h.status, "offline")
                     \/ StrictEquals(h.statusType, h.status, "at_hospital")
                  THEN MapDelete(activeDrivers, h.conn)
                  ELSE IF MapHas(activeDrivers, h.conn) THEN activeDrivers
                  ELSE MapSet(activeDrivers, h.conn,
                              [vehicleId |-> h.vehicleId,
                               latitude |-> Null, longitude |-> Null])
        /\ Finish(h, h1)
  /\ UNCHANGED <<User, conns, Ambulance, EmergencyRequest, pendingRequests,
                 rooms>>

\* the continuation after the await, lines 80-98
UpdateStatusUpdated(h) ==
  /\ Suspended(h, "update-status", "updated")
  /\ LET h1 == IF h.result # Null /\ LooseFalse(h.statusType, h.status)
               THEN Emit(h, Msg("remove-ambulance", "clientIo", h.vehicleId))
               ELSE h
     IN /\ activeDrivers' =
             IF h.result = Null THEN activeDrivers
             ELSE IF \/ StrictEquals(h.statusType, h.status, "offline")
                     \/ StrictEquals(h.statusType, h.status, "at_hospital")
                  THEN MapDelete(activeDrivers, h.conn)
                  ELSE MapSet(activeDrivers, h.conn,
                              [vehicleId |-> h.vehicleId,
                               latitude |-> Null, longitude |-> Null])
        /\ Finish(h, h1)
  /\ UNCHANGED <<User, conns, Ambulance, EmergencyRequest, pendingRequests,
                 rooms>>

\* catch block, lines 99-101: logs only
UpdateStatusCatch(h) ==
  /\ Suspended(h, "update-status", "threw")
  /\ Finish(h, h)
  /\ UNCHANGED <<User, conns, Ambulance, EmergencyRequest, activeDrivers,
                 pendingRequests, rooms>>

\* ----------------------------------------------- driver: location-update
\* the event arrives: lines 104-110, the update issued
LocationUpdate(d, v, lat, lon) ==
  /\ d \in Drivers
  /\ conns[d] = "open"
  /\ CanStart
  /\ Start([NewHandler(d, "location-update") EXCEPT
              !.pc = "update", !.vehicleId = v,
              !.latitude = lat, !.longitude = lon])
  /\ UNCHANGED <<User, conns, Ambulance, EmergencyRequest, activeDrivers,
                 pendingRequests, rooms>>

\* the store executes findOneAndUpdate({vehicleId}, {currentLocation.*})
LocationUpdateUpdate(h) ==
  /\ Suspended(h, "location-update", "update")
  /\ \E ok \in BOOLEAN :
       IF ok
       THEN /\ Ambulance' = AmbulanceSetLocation(Ambulance, h.vehicleId,
                                                 h.latitude, h.longitude)
            /\ Step(h, [h EXCEPT !.pc = "updated",
                          !.result = AmbulanceFound(Ambulance, h.vehicleId)])
       ELSE /\ Ambulance' = Ambulance
            /\ Step(h, [h EXCEPT !.pc = "threw", !.result = StoreError])
  /\ UNCHANGED <<User, conns, EmergencyRequest, activeDrivers,
                 pendingRequests, rooms>>

LocationUpdateUpdated(h) ==
  /\ Suspended(h, "location-update", "updated")
  /\ LET m == [Msg("ambulance-location", "clientIo", h.vehicleId) EXCEPT
                 !.latitude = h.latitude, !.longitude = h.longitude]
     IN Finish(h, Emit(h, m))
  /\ UNCHANGED <<User, conns, Ambulance, EmergencyRequest, activeDrivers,
                 pendingRequests, rooms>>

\* variant: the catch block broadcasts the position all the same
LocationUpdateCatch_Broadcasts(h) ==
  /\ Suspended(h, "location-update", "threw")
  /\ LET m == [Msg("ambulance-location", "clientIo", h.vehicleId) EXCEPT
                 !.latitude = h.latitude, !.longitude = h.longitude]
     IN Finish(h, Emit(h, m))
  /\ UNCHANGED <<User, conns, Ambulance, EmergencyRequest, activeDrivers,
                 pendingRequests, rooms>>

\* catch block, lines 122-124: logs only
LocationUpdateCatch(h) ==
  /\ Suspended(h, "location-update", "threw")
  /\ Finish(h, h)
  /\ UNCHANGED <<User, conns, Ambulance, EmergencyRequest, activeDrivers,
                 pendingRequests, rooms>>

\* ------------------------------------------ driver: get-pending-requests
\* formattedRequests.forEach(request => pendingRequests.set(request._id,
\*   {...request, socketId: socket.id}))
RefreshPending(cache, found, socketId) ==
  [r \in DOMAIN cache \cup found |->
     IF r \in found THEN [socketId |-> socketId] ELSE cache[r]]

\* the event arrives: lines 127-130, the query issued
GetPendingRequests(d) ==
  /\ d \in Drivers
  /\ conns[d] = "open"
  /\ CanStart
  /\ Start([NewHandler(d, "get-pending-requests") EXCEPT !.pc = "find"])
  /\ UNCHANGED <<User, conns, Ambulance, EmergencyRequest, activeDrivers,
                 pendingRequests, rooms>>

\* the store executes find({status: "pending"})
GetPendingRequestsFind(h) ==
  /\ Suspended(h, "get-pending-requests", "find")
  /\ \E ok \in BOOLEAN :
       IF ok
       THEN Step(h, [h EXCEPT !.pc = "found",
                              !.found = FindPending(EmergencyRequest)])
       ELSE Step(h, [h EXCEPT !.pc = "threw", !.result = StoreError])
  /\ UNCHANGED <<User, conns, Ambulance, EmergencyRequest, activeDrivers,
                 pendingRequests, rooms>>

GetPendingRequestsFound(h) ==
  /\ Suspended(h, "get-pending-requests", "found")
  /\ LET m == [Msg("pending-requests", "socket", Null) EXCEPT
                 !.ids = h.found]
     IN /\ pendingRequests' = RefreshPending(pendingRequests, h.found, h.conn)
        /\ Finish(h, Emit(h, m))
  /\ UNCHANGED <<User, conns, Ambulance, EmergencyRequest, activeDrivers,
                 rooms>>

GetPendingRequestsCatch(h) ==
  /\ Suspended(h, "get-pending-requests", "threw")
  /\ Finish(h, Emit(h, Msg("request-error", "socket",
                           "Failed to fetch pending requests")))
  /\ UNCHANGED <<User, conns, Ambulance, EmergencyRequest, activeDrivers,
                 pendingRequests, rooms>>

\* ------------------------------------------------ driver: accept-request
\* the event arrives: lines 166-169, the query issued
AcceptRequest(d, r, v) ==
  /\ d \in Drivers
  /\ conns[d] = "open"
  /\ CanStart
  /\ Start([NewHandler(d, "accept-request") EXCEPT
              !.pc = "find", !.requestId = r, !.vehicleId = v])
  /\ UNCHANGED <<User, conns, Ambulance, EmergencyRequest, activeDrivers,
                 pendingRequests, rooms>>

\* the store executes find({status: "pending"})
AcceptRequestFind(h) ==
  /\ Suspended(h, "accept-request", "find")
  /\ \E ok \in BOOLEAN :
       IF ok
       THEN Step(h, [h EXCEPT !.pc = "found",
                              !.found = FindPending(EmergencyRequest)])
       ELSE Step(h, [h EXCEPT !.pc = "threw", !.result = StoreError])
  /\ UNCHANGED <<User, conns, Ambulance, EmergencyRequest, activeDrivers,
                 pendingRequests, rooms>>

\* clientIo.to(request.socketId).socketsJoin(roomId): the client sockets in
\* the room named by the cached socketId
ClientSocketsIn(socketId) ==
  {c \in Clients : c = socketId /\ conns[c] = "open"}

\* line 204, socket.join(roomId): the sockets the call adds to the room.  On
\* a socket that has closed it adds the socket or nothing, as the socket.io
\* release in use does; the repository pins none.
SocketJoin(c) == IF conns[c] = "open" THEN {{c}} ELSE {{c}, {}}

\* variant: the driver joins the room before the request is looked up
AcceptRequestFound_JoinsFirst(h) ==
  /\ Suspended(h, "accept-request", "found")
  /\ LET cache == RefreshPending(pendingRequests, h.found, h.conn)
     IN /\ pendingRequests' = cache
        /\ \E joined \in SocketJoin(h.conn) :
             IF ~ MapHas(cache, h.requestId)
             THEN /\ rooms' = [rooms EXCEPT ![h.requestId] = @ \cup joined]
                  /\ Finish(h, [Emit(h, Msg("accept-error", "socket",
                                            RequestUnavailable))
                                  EXCEPT !.result = RequestUnavailable])
             ELSE /\ rooms' = [rooms EXCEPT ![h.requestId] =
                        @ \cup joined
                          \cup ClientSocketsIn(cache[h.requestId].socketId)]
                  /\ Step(h, [Emit(h, Msg("accepted-progress", "socket",
                                          Null))
                                EXCEPT !.pc = "update"])
  /\ UNCHANGED <<User, conns, Ambulance, EmergencyRequest, activeDrivers>>

\* lines 187-213: refresh the map, look the request up, join the room,
\* tell the driver, and issue the update
AcceptRequestFound(h) ==
  /\ Suspended(h, "accept-request", "found")
  /\ LET cache == RefreshPending(pendingRequests, h.found, h.conn)
     IN /\ pendingRequests' = cache
        /\ IF ~ MapHas(cache, h.requestId)
           THEN /\ rooms' = rooms
                /\ Finish(h, [Emit(h, Msg("accept-error", "socket",
                                          RequestUnavailable))
                                EXCEPT !.result = RequestUnavailable])
           ELSE /\ \E joined \in SocketJoin(h.conn) :
                     rooms' = [rooms EXCEPT ![h.requestId] =
                       @ \cup joined
                         \cup ClientSocketsIn(cache[h.requestId].socketId)]
                /\ Step(h, [Emit(h, Msg("accepted-progress", "socket", Null))
                              EXCEPT !.pc = "update"])
  /\ UNCHANGED <<User, conns, Ambulance, EmergencyRequest, activeDrivers>>

\* the store executes findByIdAndUpdate(requestId, {accepted, ambulanceId})
AcceptRequestUpdate(h) ==
  /\ Suspended(h, "accept-request", "update")
  /\ \E ok \in BOOLEAN :
       IF ok
       THEN /\ EmergencyRequest' =
                 RequestSetAccepted(EmergencyRequest, h.requestId,
                                    h.vehicleId)
            /\ Step(h, [h EXCEPT !.pc = "updated",
                          !.result = RequestFound(EmergencyRequest,
                                                  h.requestId)])
       ELSE /\ EmergencyRequest' = EmergencyRequest
            /\ Step(h, [h EXCEPT !.pc = "threw", !.result = StoreError])
  /\ UNCHANGED <<User, conns, Ambulance, activeDrivers, pendingRequests,
                 rooms>>

\* lines 215-217: cleanup
AcceptRequestUpdated(h) ==
  /\ Suspended(h, "accept-request", "updated")
  /\ pendingRequests' = MapDelete(pendingRequests, h.requestId)
  /\ Finish(h, Emit(h, Msg("request-removed", "driverIo", h.requestId)))
  /\ UNCHANGED <<User, conns, Ambulance, EmergencyRequest, activeDrivers,
                 rooms>>

\* variant: the catch block also tells the drivers to drop the request
AcceptRequestCatch_Removes(h) ==
  /\ Suspended(h, "accept-request", "threw")
  /\ Finish(h, Emit(Emit(h, Msg("accept-error", "socket", h.result)),
                    Msg("request-removed", "driverIo", h.requestId)))
  /\ UNCHANGED <<User, conns, Ambulance, EmergencyRequest, activeDrivers,
                 pendingRequests, rooms>>

\* catch block, lines 218-221, for a store operation that threw
AcceptRequestCatch(h) ==
  /\ Suspended(h, "accept-request", "threw")
  /\ Finish(h, Emit(h, Msg("accept-error", "socket", h.result)))
  /\ UNCHANGED <<User, conns, Ambulance, EmergencyRequest, activeDrivers,
                 pendingRequests, rooms>>

\* ----------------------------------------- driver: update-request-status
\* the event arrives: lines 223-229, the update issued
UpdateRequestStatus(d, r, s) ==
  /\ d \in Drivers
  /\ conns[d] = "open"
  /\ CanStart
  /\ Start([NewHandler(d, "update-request-status") EXCEPT
              !.pc = "update", !.requestId = r,
              !.statusType = "string", !.status = s])
  /\ UNCHANGED <<User, conns, Ambulance, EmergencyRequest, activeDrivers,
                 pendingRequests, rooms>>

\* the store executes findByIdAndUpdate(requestId, {status})
UpdateRequestStatusUpdate(h) ==
  /\ Suspended(h, "update-request-status", "update")
  /\ \E ok \in BOOLEAN :
       IF ok
       THEN /\ EmergencyRequest' =
                 RequestSetStatus(EmergencyRequest, h.requestId, h.status)
            /\ Step(h, [h EXCEPT !.pc = "updated",
                          !.result = RequestFound(EmergencyRequest,
                                                  h.requestId)])
       ELSE /\ EmergencyRequest' = EmergencyRequest
            /\ Step(h, [h EXCEPT !.pc = "threw", !.result = StoreError])
  /\ UNCHANGED <<User, conns, Ambulance, activeDrivers, pendingRequests,
                 rooms>>

UpdateRequestStatusUpdated(h) ==
  /\ Suspended(h, "update-request-status", "updated")
  /\ Finish(h, Emit(h, Msg("accepted-progress-disable", "socket", Null)))
  /\ UNCHANGED <<User, conns, Ambulance, EmergencyRequest, activeDrivers,
                 pendingRequests, rooms>>

UpdateRequestStatusCatch(h) ==
  /\ Suspended(h, "update-request-status", "threw")
  /\ Finish(h, h)
  /\ UNCHANGED <<User, conns, Ambulance, EmergencyRequest, activeDrivers,
                 pendingRequests, rooms>>

\* ---------------------------------------------------- driver: disconnect
\* variant: no early return for a socket without an entry
DisconnectHandler_NoLookup(d) ==
  Start([NewHandler(d, "disconnect") EXCEPT
           !.pc = "update",
           !.vehicleId = IF MapHas(activeDrivers, d)
                         THEN activeDrivers[d].vehicleId ELSE Missing])

\* lines 246-262: look the socket up; return if absent, else issue the update
DisconnectHandler(d) ==
  LET h == NewHandler(d, "disconnect")
  IN IF ~ MapHas(activeDrivers, d)
     THEN StartFinish(h)
     ELSE Start([h EXCEPT !.pc = "update",
                          !.vehicleId = activeDrivers[d].vehicleId])

\* a closing socket leaves every room it is in before its disconnect event
\* fires
LeaveAll(rs, s) == [r \in DOMAIN rs |-> rs[r] \ {s}]

\* the socket closes and its disconnect event fires
DriverDisconnect(d) ==
  /\ d \in Drivers
  /\ conns[d] = "open"
  /\ CanStart
  /\ conns' = [conns EXCEPT ![d] = "closed"]
  /\ rooms' = LeaveAll(rooms, d)
  /\ DisconnectHandler(d)
  /\ UNCHANGED <<User, Ambulance, EmergencyRequest, activeDrivers,
                 pendingRequests>>

\* the disconnect event fires again on a socket that has closed
DriverDisconnectAgain(d) ==
  /\ d \in Drivers
  /\ conns[d] = "closed"
  /\ CanStart
  /\ conns' = conns
  /\ DisconnectHandler(d)
  /\ UNCHANGED <<User, Ambulance, EmergencyRequest, activeDrivers,
                 pendingRequests, rooms>>

\* the store executes findOneAndUpdate({vehicleId}, {status: "offline"})
DriverDisconnectUpdate(h) ==
  /\ Suspended(h, "disconnect", "update")
  /\ \E ok \in BOOLEAN :
       IF ok
       THEN /\ Ambulance' =
                 AmbulanceSetStatus(Ambulance, h.vehicleId, "offline")
            /\ Step(h, [h EXCEPT !.pc = "updated",
                          !.result = AmbulanceFound(Ambulance, h.vehicleId)])
       ELSE /\ Ambulance' = Ambulance
            /\ Step(h, [h EXCEPT !.pc = "threw", !.result = StoreError])
  /\ UNCHANGED <<User, conns, EmergencyRequest, activeDrivers,
                 pendingRequests, rooms>>

\* variant: the continuation forgets activeDrivers.delete
DriverDisconnectUpdated_KeepsEntry(h) ==
  /\ Suspended(h, "disconnect", "updated")
  /\ Finish(h, IF h.result # Null
               THEN Emit(h, Msg("remove-ambulance", "clientIo", h.vehicleId))
               ELSE h)
  /\ UNCHANGED <<User, conns, Ambulance, EmergencyRequest, activeDrivers,
                 pendingRequests, rooms>>

\* lines 264-273
DriverDisconnectUpdated(h) ==
  /\ Suspended(h, "disconnect", "updated")
  /\ activeDrivers' = MapDelete(activeDrivers, h.conn)
  /\ Finish(h, IF h.result # Null
               THEN Emit(h, Msg("remove-ambulance", "clientIo", h.vehicleId))
               ELSE h)
  /\ UNCHANGED <<User, conns, Ambulance, EmergencyRequest, pendingRequests,
                 rooms>>

\* catch block, lines 274-276: logs only
DriverDisconnectCatch(h) ==
  /\ Suspended(h, "disconnect", "threw")
  /\ Finish(h, h)
  /\ UNCHANGED <<User, conns, Ambulance, EmergencyRequest, activeDrivers,
                 pendingRequests, rooms>>

\* --------------------------------------------------- client: setAmbulance
\* the event arrives: lines 283-288, the query issued
SetAmbulance(c) ==
  /\ c \in Clients
  /\ conns[c] = "open"
  /\ CanStart
  /\ Start([NewHandler(c, "setAmbulance") EXCEPT !.pc = "find"])
  /\ UNCHANGED <<User, conns, Ambulance, EmergencyRequest, activeDrivers,
                 pendingRequests, rooms>>

\* the store executes find({status: {$ne: "offline"}})
SetAmbulanceFind(h) ==
  /\ Suspended(h, "setAmbulance", "find")
  /\ \E ok \in BOOLEAN :
       IF ok
       THEN Step(h, [h EXCEPT !.pc = "found",
                              !.found = FindActive(Ambulance)])
       ELSE Step(h, [h EXCEPT !.pc = "threw", !.result = StoreError])
  /\ UNCHANGED <<User, conns, Ambulance, EmergencyRequest, activeDrivers,
                 pendingRequests, rooms>>

SetAmbulanceFound(h) ==
  /\ Suspended(h, "setAmbulance", "found")
  /\ LET m == [Msg("active-ambulances", "socket", Null) EXCEPT
                 !.ids = h.found]
     IN Finish(h, Emit(h, m))
  /\ UNCHANGED <<User, conns, Ambulance, EmergencyRequest, activeDrivers,
                 pendingRequests, rooms>>

SetAmbulanceCatch(h) ==
  /\ Suspended(h, "setAmbulance", "threw")
  /\ Finish(h, h)
  /\ UNCHANGED <<User, conns, Ambulance, EmergencyRequest, activeDrivers,
                 pendingRequests, rooms>>

\* ---------------------------------------------- client: emergency-request
\* the values of userId and location: a token stands for an object, save
\* the tokens of the values that ! takes to true: undefined, null, the
\* empty string, 0, false and NaN
Falsy == {Missing, Null, "", "0", "false", "NaN"}

\* variant: only userId is tested
InvalidRequestData_UserIdOnly(userId, location) ==
  userId \in Falsy

\* line 308: !requestData.userId || !requestData.location
InvalidRequestData(userId, location) ==
  userId \in Falsy \/ location \in Falsy

\* the event arrives: invalid data throws at once (lines 306-310), else the
\* document is built and save() issued (312-323)
EmergencyRequestEvent(c, userId, location, patientCount, criticalLevel) ==
  /\ c \in Clients
  /\ conns[c] = "open"
  /\ CanStart
  /\ LET h == [NewHandler(c, "emergency-request") EXCEPT
                 !.userId = userId, !.location = location,
                 !.patientCount = patientCount,
                 !.criticalLevel = criticalLevel]
     IN IF InvalidRequestData(userId, location)
        THEN StartFinish([Emit(h, Msg("request-error", "socket",
                                      "Failed to process emergency request"))
                            EXCEPT !.result = "Invalid request data"])
        ELSE Start([h EXCEPT !.pc = "save", !.requestId = userId])
  /\ UNCHANGED <<User, conns, Ambulance, EmergencyRequest, activeDrivers,
                 pendingRequests, rooms>>

\* the store executes save(), which throws on a duplicate _id and on a
\* criticalLevel outside the enum
EmergencyRequestSave(h) ==
  /\ Suspended(h, "emergency-request", "save")
  /\ \E ok \in BOOLEAN :
       IF /\ ok
          /\ ~ MapHas(EmergencyRequest, h.requestId)
          /\ ValidCriticalLevel(h.criticalLevel)
       THEN /\ EmergencyRequest' =
                 MapSet(EmergencyRequest, h.requestId,
                        NewRequest(h.userId, h.patientCount,
                                   h.criticalLevel))
            /\ Step(h, [h EXCEPT !.pc = "saved", !.result = "doc"])
       ELSE /\ EmergencyRequest' = EmergencyRequest
            /\ Step(h, [h EXCEPT !.pc = "threw", !.result = StoreError])
  /\ UNCHANGED <<User, conns, Ambulance, activeDrivers, pendingRequests,
                 rooms>>

\* variant: the continuation broadcasts without caching the request
EmergencyRequestSaved_NoCache(h) ==
  /\ Suspended(h, "emergency-request", "saved")
  /\ Finish(h, Emit(h, Msg("new-emergency-request", "driverIo",
                           h.requestId)))
  /\ UNCHANGED <<User, conns, Ambulance, EmergencyRequest, activeDrivers,
                 pendingRequests, rooms>>

\* lines 325-341
EmergencyRequestSaved(h) ==
  /\ Suspended(h, "emergency-request", "saved")
  /\ pendingRequests' =
       MapSet(pendingRequests, h.requestId, [socketId |-> h.conn])
  /\ Finish(h, Emit(h, Msg("new-emergency-request", "driverIo",
                           h.requestId)))
  /\ UNCHANGED <<User, conns, Ambulance, EmergencyRequest, activeDrivers,
                 rooms>>

\* variant: the catch block only logs
EmergencyRequestCatch_Silent(h) ==
  /\ Suspended(h, "emergency-request", "threw")
  /\ Finish(h, h)
  /\ UNCHANGED <<User, conns, Ambulance, EmergencyRequest, activeDrivers,
                 pendingRequests, rooms>>

\* catch block, lines 342-345, for a save that threw
EmergencyRequestCatch(h) ==
  /\ Suspended(h, "emergency-request", "threw")
  /\ Finish(h, Emit(h, Msg("request-error", "socket",
                           "Failed to process emergency request")))
  /\ UNCHANGED <<User, conns, Ambulance, EmergencyRequest, activeDrivers,
                 pendingRequests, rooms>>

\* ---------------------------------------------------- client: disconnect
\* variant: the requests the client submitted are dropped from the cache
ClientDisconnect_Evicts(c) ==
  /\ c \in Clients
  /\ conns[c] = "open"
  /\ conns' = [conns EXCEPT ![c] = "closed"]
  /\ pendingRequests' =
       [r \in {x \in DOMAIN pendingRequests :
                 pendingRequests[x].socketId # c} |-> pendingRequests[r]]
  /\ rooms' = LeaveAll(rooms, c)
  /\ finished' = NoHandler
  /\ UNCHANGED <<User, Ambulance, EmergencyRequest, activeDrivers, handlers,
                 started>>

\* the socket closes, leaving its rooms; lines 349-351 log only
ClientDisconnect(c) ==
  /\ c \in Clients
  /\ conns[c] = "open"
  /\ conns' = [conns EXCEPT ![c] = "closed"]
  /\ rooms' = LeaveAll(rooms, c)
  /\ finished' = NoHandler
  /\ UNCHANGED <<User, Ambulance, EmergencyRequest, activeDrivers,
                 pendingRequests, handlers, started>>

\* ------------------------------------------------- HTTP: POST /register
Response(code, message) == Msg("response", "res", code \o " " \o message)

\* the request arrives, lines 355-363: a body without name, email, number
\* or password is answered 400; else the query for the email is issued
Register(email, complete, userType) ==
  /\ CanStart
  /\ LET h == [NewHandler(Http, "register") EXCEPT
                 !.email = email, !.userType = userType]
     IN IF ~ complete
        THEN StartFinish(Emit(h, Response("400", "All fields are required")))
        ELSE Start([h EXCEPT !.pc = "findUser"])
  /\ UNCHANGED <<User, conns, Ambulance, EmergencyRequest, activeDrivers,
                 pendingRequests, rooms>>

\* the store executes User.findOne({email})
RegisterFindUser(h) ==
  /\ Suspended(h, "register", "findUser")
  /\ \E ok \in BOOLEAN :
       IF ok
       THEN Step(h, [h EXCEPT !.pc = "foundUser",
                       !.result = IF User[h.email] > 0 THEN "doc" ELSE Null])
       ELSE Step(h, [h EXCEPT !.pc = "threw", !.result = StoreError])
  /\ UNCHANGED <<User, conns, Ambulance, EmergencyRequest, activeDrivers,
                 pendingRequests, rooms>>

\* lines 364-367: an existing user is answered 400; else the hash is started
RegisterFoundUser(h) ==
  /\ Suspended(h, "register", "foundUser")
  /\ IF h.result # Null
     THEN Finish(h, Emit(h, Response("400", "User already exists")))
     ELSE Step(h, [h EXCEPT !.pc = "hash"])
  /\ UNCHANGED <<User, conns, Ambulance, EmergencyRequest, activeDrivers,
                 pendingRequests, rooms>>

\* bcrypt.hash resolves or rejects
RegisterHash(h) ==
  /\ Suspended(h, "register", "hash")
  /\ \E ok \in BOOLEAN :
       IF ok
       THEN Step(h, [h EXCEPT !.pc = "hashed"])
       ELSE Step(h, [h EXCEPT !.pc = "threw", !.result = HashError])
  /\ UNCHANGED <<User, conns, Ambulance, EmergencyRequest, activeDrivers,
                 pendingRequests, rooms>>

\* lines 368-375: the user is built and its save issued
RegisterHashed(h) ==
  /\ Suspended(h, "register", "hashed")
  /\ Step(h, [h EXCEPT !.pc = "saveUser"])
  /\ UNCHANGED <<User, conns, Ambulance, EmergencyRequest, activeDrivers,
                 pendingRequests, rooms>>

\* the store executes newUser.save()
RegisterSaveUser(h) ==
  /\ Suspended(h, "register", "saveUser")
  /\ \E ok \in BOOLEAN :
       IF ok
       THEN /\ User' = [User EXCEPT ![h.email] = @ + 1]
            /\ Step(h, [h EXCEPT !.pc = "savedUser", !.result = "doc"])
       ELSE /\ User' = User
            /\ Step(h, [h EXCEPT !.pc = "threw", !.result = StoreError])
  /\ UNCHANGED <<conns, Ambulance, EmergencyRequest, activeDrivers,
                 pendingRequests, rooms>>

\* lines 377-392: for userType "ambulance" an Ambulance with a generated
\* vehicleId and status "offline" is built and its save issued; else 201
RegisterSavedUser(h) ==
  /\ Suspended(h, "register", "savedUser")
  /\ IF h.userType = "ambulance"
     THEN \E id \in GeneratedVehicleIds :
            Step(h, [h EXCEPT !.pc = "saveAmbulance", !.vehicleId = id])
     ELSE Finish(h, Emit(h, Response("201", "User registered successfully")))
  /\ UNCHANGED <<User, conns, Ambulance, EmergencyRequest, activeDrivers,
                 pendingRequests, rooms>>

\* the store executes newAmbulance.save(); vehicleId is unique
RegisterSaveAmbulance(h) ==
  /\ Suspended(h, "register", "saveAmbulance")
  /\ \E ok \in BOOLEAN :
       IF ok /\ ~ MapHas(Ambulance, h.vehicleId)
       THEN /\ Ambulance' =
                 MapSet(Ambulance, h.vehicleId,
                        [status |-> "offline", latitude |-> Null,
                         longitude |-> Null])
            /\ Step(h, [h EXCEPT !.pc = "savedAmbulance",
                          !.result = "doc"])
       ELSE /\ Ambulance' = Ambulance
            /\ Step(h, [h EXCEPT !.pc = "threw", !.result = StoreError])
  /\ UNCHANGED <<User, conns, EmergencyRequest, activeDrivers,
                 pendingRequests, rooms>>

\* line 392: 201
RegisterSavedAmbulance(h) ==
  /\ Suspended(h, "register", "savedAmbulance")
  /\ Finish(h, Emit(h, Response("201", "User registered successfully")))
  /\ UNCHANGED <<User, conns, Ambulance, EmergencyRequest, activeDrivers,
                 pendingRequests, rooms>>

\* catch block, lines 393-395: 500 with the message of the error
RegisterCatch(h) ==
  /\ Suspended(h, "register", "threw")
  /\ Finish(h, Emit(h, Response("500", h.result)))
  /\ UNCHANGED <<User, conns, Ambulance, EmergencyRequest, activeDrivers,
                 pendingRequests, rooms>>

\* ------------------------------------------------------------------ Next
UserIdInputs(ids) == ids \cup {Missing, Null}
LocationInputs == {"location", Missing, ""}

SubmitWith(ids, counts, levels) ==
  \/ \E c \in Clients, u \in UserIdInputs(ids), l \in LocationInputs,
        n \in counts, k \in levels : EmergencyRequestEvent(c, u, l, n, k)
  \/ \E h \in InFlight : EmergencyRequestSave(h)
  \/ \E h \in InFlight : EmergencyRequestSaved(h)
  \/ \E h \in InFlight : EmergencyRequestCatch(h)

\* submissions that leave patientCount and criticalLevel out
Submit(ids) == SubmitWith(ids, {Missing}, {Missing})

ListPending ==
  \/ \E d \in Drivers : GetPendingRequests(d)
  \/ \E h \in InFlight : GetPendingRequestsFind(h)
  \/ \E h \in InFlight : GetPendingRequestsFound(h)
  \/ \E h \in InFlight : GetPendingRequestsCatch(h)

AcceptWith(ids, vids) ==
  \/ \E d \in Drivers, r \in ids, v \in vids : AcceptRequest(d, r, v)
  \/ \E h \in InFlight : AcceptRequestFind(h)
  \/ \E h \in InFlight : AcceptRequestFound(h)
  \/ \E h \in InFlight : AcceptRequestUpdate(h)
  \/ \E h \in InFlight : AcceptRequestUpdated(h)
  \/ \E h \in InFlight : AcceptRequestCatch(h)

\* accepts that name either vehicle
Accept(ids) == AcceptWith(ids, Vehicles)

RequestStatus(ids) ==
  \/ \E d \in Drivers, r \in ids, s \in RequestStatusInputs :
       UpdateRequestStatus(d, r, s)
  \/ \E h \in InFlight : UpdateRequestStatusUpdate(h)
  \/ \E h \in InFlight : UpdateRequestStatusUpdated(h)
  \/ \E h \in InFlight : UpdateRequestStatusCatch(h)

VehicleStatus(vids, statuses) ==
  \/ \E d \in Drivers, v \in vids, s \in statuses :
       UpdateStatus(d, v, "string", s)
  \/ \E h \in InFlight : UpdateStatusUpdate(h)
  \/ \E h \in InFlight : UpdateStatusUpdated(h)
  \/ \E h \in InFlight : UpdateStatusCatch(h)

\* update-status with a status that is no string
VehicleStatusOther(vids, values) ==
  \E d \in Drivers, v \in vids, x \in values : UpdateStatus(d, v, x[1], x[2])

VehicleLocation(vids, lats, lons) ==
  \/ \E d \in Drivers, v \in vids, lat \in lats, lon \in lons :
       LocationUpdate(d, v, lat, lon)
  \/ \E h \in InFlight : LocationUpdateUpdate(h)
  \/ \E h \in InFlight : LocationUpdateUpdated(h)
  \/ \E h \in InFlight : LocationUpdateCatch(h)

DriverClose ==
  \/ \E d \in Drivers : DriverDisconnect(d)
  \/ \E h \in InFlight : DriverDisconnectUpdate(h)
  \/ \E h \in InFlight : DriverDisconnectUpdated(h)
  \/ \E h \in InFlight : DriverDisconnectCatch(h)

ListActive ==
  \/ \E c \in Clients : SetAmbulance(c)
  \/ \E h \in InFlight : SetAmbulanceFind(h)
  \/ \E h \in InFlight : SetAmbulanceFound(h)
  \/ \E h \in InFlight : SetAmbulanceCatch(h)

ClientClose == \E c \in Clients : ClientDisconnect(c)

Registration ==
  \/ \E e \in Emails, complete \in BOOLEAN, t \in UserTypeInputs :
       Register(e, complete, t)
  \/ \E h \in InFlight : RegisterFindUser(h)
  \/ \E h \in InFlight : RegisterFoundUser(h)
  \/ \E h \in InFlight : RegisterHash(h)
  \/ \E h \in InFlight : RegisterHashed(h)
  \/ \E h \in InFlight : RegisterSaveUser(h)
  \/ \E h \in InFlight : RegisterSavedUser(h)
  \/ \E h \in InFlight : RegisterSaveAmbulance(h)
  \/ \E h \in InFlight : RegisterSavedAmbulance(h)
  \/ \E h \in InFlight : RegisterCatch(h)

\* the vehicleIds an event can name: the vehicles, one that is unknown, and
\* those a registration can add
NamedVehicleIds == VehicleIds \cup GeneratedVehicleIds

Next ==
  \/ SubmitWith(ReqIds, PatientCountInputs, CriticalLevelInputs)
  \/ ListPending
  \/ Accept(ReqIds)
  \/ RequestStatus(ReqIds)
  \/ VehicleStatus(NamedVehicleIds, VehicleStatusInputs)
  \/ VehicleStatusOther(NamedVehicleIds, OtherStatusInputs)
  \/ VehicleLocation(NamedVehicleIds, Latitudes, Longitudes)
  \/ DriverClose
  \/ ListActive
  \/ ClientClose
  \/ Registration

Spec == Init /\ [][Next]_vars

\* The request side, for one request identifier and one vehicle: submission,
\* listing, acceptance, progress.  These handlers touch neither
\* activeDrivers nor the Ambulance collection.
OneRequest == {"r1"}
OneVehicle == {"v1"}

NextDispatch ==
  \/ Submit(OneRequest)
  \/ ListPending
  \/ AcceptWith(OneRequest, OneVehicle)
  \/ RequestStatus(OneRequest)
  \/ ClientClose

SpecDispatch == Init /\ [][NextDispatch]_vars

\* Submission and acceptance of one request by drivers that name different
\* vehicles.
NextAssign ==
  \/ Submit(OneRequest)
  \/ Accept(OneRequest)

SpecAssign == Init /\ [][NextAssign]_vars

\* The vehicle side: status announcements and disconnect cleanup, the
\* handlers that touch activeDrivers and the status of an Ambulance.
NextFleet ==
  \/ VehicleStatus(Vehicles, {"available", "offline"})
  \/ DriverClose

SpecFleet == Init /\ [][NextFleet]_vars

\* The vehicle side when the transport delivers the close event of a socket
\* again.
NextRefire ==
  \/ NextFleet
  \/ \E d \in Drivers : DriverDisconnectAgain(d)

SpecRefire == Init /\ [][NextRefire]_vars

\* Position reports, for one vehicle that exists and one that does not, while
\* the client sockets come and go.
TrackedVehicles == {"v1", "v0"}
ReportedLatitudes == {"37.0", "38.5"}

NextTrack ==
  \/ VehicleLocation(TrackedVehicles, ReportedLatitudes, Longitudes)
  \/ ClientClose

SpecTrack == Init /\ [][NextTrack]_vars

\* The handlers that broadcast to a namespace: emergency-request,
\* accept-request, location-update, update-status and the driver disconnect,
\* for one request; positions are reported for a vehicle that has a record
\* and for one that has none.  "" is the status for which update-status
\* broadcasts.

NextBroadcast ==
  \/ Submit(OneRequest)
  \/ Accept(OneRequest)
  \/ VehicleLocation(TrackedVehicles, Latitudes, Longitudes)
  \/ VehicleStatus(OneVehicle, {""})
  \/ DriverClose

SpecBroadcast == Init /\ [][NextBroadcast]_vars

\* Listing the pending requests while requests are submitted and moved on,
\* for two request identifiers.
NextList ==
  \/ Submit(ReqIds)
  \/ ListPending
  \/ RequestStatus(ReqIds)

SpecList == Init /\ [][NextList]_vars

\* The handlers that delete from a map: update-status and the driver
\* disconnect (activeDrivers), accept-request (pendingRequests), with the
\* submission that fills the latter; one vehicle and one request.
NextRelease ==
  \/ VehicleStatus(OneVehicle, {"available", "offline"})
  \/ DriverClose
  \/ Submit(OneRequest)
  \/ Accept(OneRequest)

SpecRelease == Init /\ [][NextRelease]_vars

\* Submissions alone, with patientCount and criticalLevel supplied or not.
NextIntake == SubmitWith(ReqIds, PatientCountInputs, CriticalLevelInputs)

SpecIntake == Init /\ [][NextIntake]_vars

\* Status announcements and position reports together, for the two vehicles
\* that exist and the vehicleId that matches no record.
NextPosition ==
  \/ VehicleStatus(VehicleIds, {"available"})
  \/ VehicleLocation(VehicleIds, Latitudes, Longitudes)

SpecPosition == Init /\ [][NextPosition]_vars

\* The server starts on a store that already holds pending requests, saved
\* by an earlier run: the maps are empty, and accept-request fills the cache
\* from the store.
InitBacklog ==
  /\ conns = [c \in Conn |-> "open"]
  /\ User = [e \in Emails |-> 0]
  /\ Ambulance = [v \in Vehicles |->
                    [status |-> "offline", latitude |-> Null,
                     longitude |-> Null]]
  /\ EmergencyRequest = [r \in ReqIds |-> NewRequest(r, Missing, Missing)]
  /\ activeDrivers = [d \in {} |-> Null]
  /\ pendingRequests = [r \in {} |-> Null]
  /\ rooms = [r \in ReqIds |-> {}]
  /\ handlers = EmptyBag
  /\ finished = NoHandler
  /\ started = 0

NextBacklog == AcceptWith(ReqIds, OneVehicle)

SpecBacklog == InitBacklog /\ [][NextBacklog]_vars

\* ======================================================== properties
AcceptedProgress == Msg("accepted-progress", "socket", Null)

RequestError ==
  Msg("request-error", "socket", "Failed to process emergency request")

\* the invocation h reached its present position in this step
Arrived(h) == CopiesIn(h, handlers') > CopiesIn(h, handlers)

\* C1: of the accept-request handlers for one request that are in flight
\* together, at most one has been sent accepted-progress.
C1_OneAcceptorIsTold ==
  \A h1 \in InFlight : \A h2 \in InFlight :
    ( /\ h1.op = "accept-request"
      /\ h2.op = "accept-request"
      /\ h1.requestId = h2.requestId
      /\ AcceptedProgress \in h1.out
      /\ AcceptedProgress \in h2.out )
    => (h1 = h2 /\ CopiesIn(h1, handlers) = 1)

\* C2: once a request carries a vehicle reference, no step writes a
\* different vehicle reference to it.
C2_AssignedOnce ==
  [][\A r \in DOMAIN EmergencyRequest :
       EmergencyRequest[r].ambulanceId # Null
         => EmergencyRequest'[r].ambulanceId = EmergencyRequest[r].ambulanceId
    ]_vars

\* C3: when an accept-request handler that sent accepted-progress returns,
\* the request is persisted as accepted with the vehicle the driver supplied
\* and the pending-request cache has no entry for it.
C3_ToldImpliesPersisted ==
  (finished.op = "accept-request" /\ AcceptedProgress \in finished.out)
  => /\ finished.requestId \in DOMAIN EmergencyRequest
     /\ EmergencyRequest[finished.requestId].status = "accepted"
     /\ EmergencyRequest[finished.requestId].ambulanceId = finished.vehicleId
     /\ finished.requestId \notin DOMAIN pendingRequests

\* C4: when the update to accepted throws after the lookup succeeded, the
\* handler returns with the cache entry of the request gone, accept-error
\* sent to the driver and no request-removed broadcast.
C4_FailedUpdateKeepsClaim ==
  ( /\ finished.op = "accept-request"
    /\ AcceptedProgress \in finished.out
    /\ finished.result = StoreError )
  => /\ finished.requestId \notin DOMAIN pendingRequests
     /\ Msg("accept-error", "socket", StoreError) \in finished.out
     /\ \A m \in finished.out : m.ev # "request-removed"

\* C5: an emergency-request whose userId or location is missing (undefined,
\* null or another value that ! takes to true) returns at
\* once with request-error to the submitter only; no record is persisted, the
\* cache is unchanged and nothing is broadcast.
C5_InvalidRequestRejected ==
  [][( /\ finished'.op = "emergency-request"
       /\ (finished'.userId \in Falsy \/ finished'.location \in Falsy) )
     => /\ finished'.out = {RequestError}
        /\ EmergencyRequest' = EmergencyRequest
        /\ pendingRequests' = pendingRequests
        /\ handlers' = handlers
    ]_vars

C5_Witness ==
  /\ finished.op = "emergency-request"
  /\ finished.userId # Missing
  /\ finished.location = Missing
  /\ finished.out = {RequestError}

\* C6: an emergency-request whose save threw returns with request-error to
\* the submitter only, leaving the cache as it was and broadcasting nothing.
C6_SaveFailureReported ==
  [][( /\ finished'.op = "emergency-request"
       /\ finished'.result = StoreError )
     => /\ finished'.out = {RequestError}
        /\ pendingRequests' = pendingRequests
    ]_vars

C6_Witness ==
  /\ finished.op = "emergency-request"
  /\ finished.result = StoreError
  /\ finished.userId # Missing
  /\ finished.location # Missing
  /\ finished.out = {RequestError}

\* C7: a valid emergency-request first persists a new pending record and
\* sends nothing; in a later step it inserts the cache entry with the
\* submitter as origin and broadcasts new-emergency-request to the drivers.
C7_PersistThenCacheThenBroadcast ==
  [][ /\ \A h \in InFlight' :
           (h.op = "emergency-request" /\ h.pc = "saved" /\ Arrived(h))
           => /\ h.requestId \notin DOMAIN EmergencyRequest
              /\ h.requestId \in DOMAIN EmergencyRequest'
              /\ EmergencyRequest'[h.requestId].status = "pending"
              /\ h.out = {}
              /\ pendingRequests' = pendingRequests
      /\ \A h \in InFlight : h.op = "emergency-request" => h.out = {}
      /\ ( /\ finished'.op = "emergency-request"
           /\ \E m \in finished'.out : m.ev = "new-emergency-request" )
         => /\ finished'.requestId \in DOMAIN EmergencyRequest
            /\ BagIn([finished' EXCEPT !.pc = "saved", !.out = {}], handlers)
            /\ finished'.requestId \in DOMAIN pendingRequests'
            /\ pendingRequests'[finished'.requestId].socketId = finished'.conn
            /\ finished'.conn \in Clients
            /\ finished'.out =
                 {Msg("new-emergency-request", "driverIo",
                      finished'.requestId)}
    ]_vars

C7_Witness ==
  /\ finished.op = "emergency-request"
  /\ finished.out = {Msg("new-emergency-request", "driverIo", "r1")}
  /\ "r1" \in DOMAIN EmergencyRequest
  /\ "r1" \in DOMAIN pendingRequests
  /\ pendingRequests["r1"].socketId = finished.conn

\* C8: the disconnect of a registered driver issues the update for the
\* vehicle activeDrivers records for it; when the store executes it on an
\* existing vehicle the status becomes offline; and the handler then returns
\* with the activeDrivers entry removed and remove-ambulance for that
\* vehicle broadcast to the clients.
C8_DisconnectSetsOffline ==
  [][ /\ \A d \in Drivers :
           (conns[d] = "open" /\ conns'[d] = "closed"
              /\ d \in DOMAIN activeDrivers)
           => BagIn([NewHandler(d, "disconnect") EXCEPT
                       !.pc = "update",
                       !.vehicleId = activeDrivers[d].vehicleId], handlers')
      /\ \A h \in InFlight' :
           ( /\ h.op = "disconnect" /\ h.pc = "updated" /\ Arrived(h)
             /\ h.vehicleId \in DOMAIN Ambulance )
           => /\ Ambulance'[h.vehicleId].status = "offline"
              /\ h.result = "doc"
      /\ (finished'.op = "disconnect" /\ finished'.result = "doc")
         => /\ finished'.conn \notin DOMAIN activeDrivers'
            /\ finished'.out =
                 {Msg("remove-ambulance", "clientIo", finished'.vehicleId)}
    ]_vars

C8_Witness ==
  /\ finished.op = "disconnect"
  /\ finished.result = "doc"
  /\ finished.vehicleId \in DOMAIN Ambulance
  /\ Ambulance[finished.vehicleId].status = "offline"
  /\ finished.conn \notin DOMAIN activeDrivers
  /\ finished.out = {Msg("remove-ambulance", "clientIo", finished.vehicleId)}

\* C9: the disconnect of a driver socket that has no activeDrivers entry
\* returns at once: no store write, nothing sent, both maps unchanged, no
\* handler left suspended.
C9_UnregisteredDisconnectIsNoop ==
  [][\A d \in Drivers :
       (conns[d] = "open" /\ conns'[d] = "closed"
          /\ d \notin DOMAIN activeDrivers)
       => /\ Ambulance' = Ambulance
          /\ EmergencyRequest' = EmergencyRequest
          /\ activeDrivers' = activeDrivers
          /\ pendingRequests' = pendingRequests
          /\ handlers' = handlers
          /\ finished'.op = "disconnect"
          /\ finished'.conn = d
          /\ finished'.out = {}
    ]_vars

C9_Witness ==
  /\ finished.op = "disconnect"
  /\ finished.vehicleId = Null
  /\ finished.out = {}
  /\ conns[finished.conn] = "closed"
  /\ finished.conn \notin DOMAIN activeDrivers

\* C10: of the disconnect handlers of one connection, at most one has had
\* its write of status offline executed.
C10_CleanupOnce ==
  \A d \in Drivers :
    LET wrote == {h \in InFlight : /\ h.op = "disconnect"
                                   /\ h.conn = d
                                   /\ h.pc = "updated"
                                   /\ h.result = "doc"}
    IN /\ Cardinality(wrote) <= 1
       /\ \A h \in wrote : CopiesIn(h, handlers) = 1
       /\ wrote # {} => ~ ( /\ finished.op = "disconnect"
                            /\ finished.conn = d
                            /\ finished.result = "doc" )

\* no invocation of connection c is suspended
Quiet(c) == \A h \in InFlight : h.conn # c

\* C11: once a driver socket has closed and none of its handlers is
\* suspended any more, activeDrivers has no entry for it.
C11_ClosedDriverReleased ==
  \A d \in Drivers :
    (conns[d] = "closed" /\ Quiet(d)) => d \notin DOMAIN activeDrivers

\* C12: update-status to offline or at_hospital that found the vehicle
\* returns with the sender's activeDrivers entry removed and remove-ambulance
\* for the vehicle broadcast to the clients.
C12_OfflineRemovesAndBroadcasts ==
  ( /\ finished.op = "update-status"
    /\ finished.status \in {"offline", "at_hospital"}
    /\ finished.result = "doc" )
  => /\ finished.conn \notin DOMAIN activeDrivers
     /\ Msg("remove-ambulance", "clientIo", finished.vehicleId)
          \in finished.out

\* C13: update-status with a status other than offline and at_hospital, for
\* a vehicle that exists: the store write sets the status of the vehicle to
\* the one sent, and the handler returns with activeDrivers mapping the
\* sender to the vehicleId sent, whatever the entry was before.
C13_OnlineRegisters ==
  [][ /\ \A h \in InFlight' :
           ( /\ h.op = "update-status" /\ h.pc = "updated" /\ Arrived(h)
             /\ h.status \notin {"offline", "at_hospital"}
             /\ h.vehicleId \in DOMAIN Ambulance )
           => /\ Ambulance'[h.vehicleId].status = h.status
              /\ h.result = "doc"
      /\ ( /\ finished'.op = "update-status"
           /\ finished'.result = "doc"
           /\ finished'.status \notin {"offline", "at_hospital"} )
         => /\ finished'.conn \in DOMAIN activeDrivers'
            /\ activeDrivers'[finished'.conn].vehicleId = finished'.vehicleId
    ]_vars

C13_Witness ==
  /\ finished.op = "update-status"
  /\ finished.status = "available"
  /\ finished.result = "doc"
  /\ finished.vehicleId = "v2"
  /\ finished.conn \in DOMAIN activeDrivers
  /\ activeDrivers[finished.conn].vehicleId = "v2"
  /\ Ambulance["v2"].status = "available"
  /\ Ambulance["v1"].status = "available"

\* who an emit of handler h reaches: a response the HTTP client, socket.emit
\* the socket of the handler if it is connected, clientIo.emit and
\* driverIo.emit the connected sockets of the namespace
Receivers(h, m) ==
  IF m.to = "res" THEN {h.conn}
  ELSE IF m.to = "socket" THEN {c \in {h.conn} : conns[c] = "open"}
  ELSE IF m.to = "clientIo" THEN {c \in Clients : conns[c] = "open"}
  ELSE {d \in Drivers : conns[d] = "open"}

\* C14: a location-update whose store write succeeds sets latitude and
\* longitude of the vehicle to the values reported and has sent nothing yet;
\* in a later step it broadcasts ambulance-location with the same vehicleId
\* and values to the connected clients.  One whose store write throws leaves
\* the vehicle as it was and broadcasts nothing.
C14_LocationPersistedThenBroadcast ==
  [][ /\ \A h \in InFlight' :
           (h.op = "location-update" /\ Arrived(h))
           => /\ h.out = {}
              /\ ( h.pc = "updated" /\ h.vehicleId \in DOMAIN Ambulance )
                 => /\ Ambulance'[h.vehicleId].latitude = h.latitude
                    /\ Ambulance'[h.vehicleId].longitude = h.longitude
              /\ h.pc = "threw" => Ambulance' = Ambulance
      /\ ( finished'.op = "location-update"
           /\ finished'.result # StoreError )
         => /\ BagIn([finished' EXCEPT !.pc = "updated", !.out = {}],
                     handlers)
            /\ \E m \in finished'.out :
                 /\ finished'.out = {m}
                 /\ m.ev = "ambulance-location"
                 /\ m.arg = finished'.vehicleId
                 /\ m.latitude = finished'.latitude
                 /\ m.longitude = finished'.longitude
                 /\ Receivers(finished', m) =
                      {c \in Clients : conns[c] = "open"}
      /\ ( finished'.op = "location-update"
           /\ finished'.result = StoreError )
         => finished'.out = {}
    ]_vars

C14_Witness ==
  /\ finished.op = "location-update"
  /\ finished.result # StoreError
  /\ finished.vehicleId = "v1"
  /\ finished.latitude = "38.5"
  /\ Ambulance["v1"].latitude = "38.5"
  /\ Ambulance["v1"].longitude = finished.longitude
  /\ conns["c1"] = "open"
  /\ \E m \in finished.out :
       /\ m.ev = "ambulance-location"
       /\ m.latitude = "38.5"
       /\ Receivers(finished, m) = {"c1"}

RequestRemoved(r) == Msg("request-removed", "driverIo", r)

\* C15: when an accept-request handler returns after its update succeeded,
\* the room of the request holds the accepting driver and the client that
\* submitted the request, if that client is still connected.  c1 is the only
\* client socket, so it is the submitter of every request.
C15_RoomHasDriverAndOrigin ==
  ( /\ finished.op = "accept-request"
    /\ RequestRemoved(finished.requestId) \in finished.out )
  => /\ finished.conn \in rooms[finished.requestId]
     /\ \A c \in Clients :
          conns[c] = "open" => c \in rooms[finished.requestId]

\* C16: an accept-request handler has sent no request-removed while it is
\* suspended, whether before or after its update; the update, when the
\* store executes it, sets the request to accepted; the handler whose update
\* succeeded then returns having broadcast request-removed with the id of
\* the request to the connected drivers; and a handler that returns with
\* request-removed sent is one whose update succeeded.
C16_RemovedAfterAccepted ==
  [][ /\ \A h \in InFlight' :
           (h.op = "accept-request" /\ Arrived(h))
           => /\ \A m \in h.out : m.ev # "request-removed"
              /\ h.pc = "updated"
                 => /\ h.requestId \in DOMAIN EmergencyRequest'
                    /\ EmergencyRequest'[h.requestId].status = "accepted"
      /\ \A h \in InFlight :
           ( /\ h.op = "accept-request" /\ h.pc = "updated"
             /\ CopiesIn(h, handlers') < CopiesIn(h, handlers) )
           => /\ finished' = [h EXCEPT !.pc = "done",
                                !.out = @ \cup {RequestRemoved(h.requestId)}]
              /\ {d \in Drivers : conns[d] = "open" /\ d # h.conn}
                   \subseteq Receivers(h, RequestRemoved(h.requestId))
      /\ ( /\ finished'.op = "accept-request"
           /\ \E m \in finished'.out : m.ev = "request-removed" )
         => \E h \in InFlight :
              /\ h.pc = "updated"
              /\ finished' = [h EXCEPT !.pc = "done",
                                !.out = @ \cup {RequestRemoved(h.requestId)}]
    ]_vars

C16_Witness ==
  /\ finished.op = "accept-request"
  /\ finished.conn = "d1"
  /\ finished.out = {AcceptedProgress, RequestRemoved("r1")}
  /\ EmergencyRequest["r1"].status = "accepted"
  /\ conns["d2"] = "open"
  /\ "d2" \in Receivers(finished, RequestRemoved("r1"))

\* an -error event, sent to the socket of the handler
ErrorAck(m) ==
  /\ m.to = "socket"
  /\ m.ev \in {"request-error", "accept-error", "status-error",
               "location-error", "error"}

\* C17: a handler of update-status, location-update, get-pending-requests,
\* accept-request, update-request-status, setAmbulance or emergency-request
\* whose store operation threw returns with an error acknowledgement sent to
\* its own socket.
C17_FailureAcknowledged ==
  ( /\ finished.op \in {"update-status", "location-update",
                        "get-pending-requests", "accept-request",
                        "update-request-status", "setAmbulance",
                        "emergency-request"}
    /\ finished.result = StoreError )
  => \E m \in finished.out : ErrorAck(m)

Broadcast(m) == m.to \in {"clientIo", "driverIo"}

\* the store write of the handler has been executed, did not throw and
\* wrote a record: save() (323, 375, 389) resolved with the document it
\* inserted; findOneAndUpdate (74-78, 110-117, 254-262) or findByIdAndUpdate
\* (210-213, 229-231) resolved with the document it wrote, not with the null
\* of a filter that matches nothing
Written(h) ==
  /\ h.pc \in {"saved", "updated", "savedUser", "savedAmbulance"}
  /\ h.result = "doc"

\* C18: a handler that is suspended has broadcast nothing; a handler that
\* returns with a broadcast (new-emergency-request, request-removed,
\* ambulance-location, remove-ambulance) was suspended, with nothing
\* broadcast, at the position after its store write, that write did not
\* throw and it wrote a record: no handler broadcasts before or without its
\* persistence step succeeding.
C18_BroadcastAfterWrite ==
  [][ /\ \A h \in InFlight' : \A m \in h.out : ~ Broadcast(m)
      /\ (\E m \in finished'.out : Broadcast(m))
         => /\ finished'.result # StoreError
            /\ \E h \in InFlight :
                 /\ Written(h)
                 /\ CopiesIn(h, handlers') < CopiesIn(h, handlers)
                 /\ finished' =
                      [h EXCEPT !.pc = "done",
                                !.out = @ \cup {m \in finished'.out :
                                                  Broadcast(m)}]
    ]_vars

\* the moves of the status of a request the claim allows
LegalMoves ==
  {<<"pending", "accepted">>, <<"accepted", "in_progress">>,
   <<"in_progress", "completed">>, <<"pending", "cancelled">>,
   <<"accepted", "cancelled">>}

\* C19: every step leaves the status of each persisted request as it is or
\* moves it along pending -> accepted -> in_progress -> completed, pending ->
\* cancelled or accepted -> cancelled; completed and cancelled never change.
C19_StatusLifecycle ==
  [][\A r \in DOMAIN EmergencyRequest :
       \/ EmergencyRequest'[r].status = EmergencyRequest[r].status
       \/ <<EmergencyRequest[r].status, EmergencyRequest'[r].status>>
            \in LegalMoves
    ]_vars

\* C20: a persisted request carries a vehicle reference exactly when its
\* status is accepted, in_progress or completed.
C20_AssignedIffActive ==
  \A r \in DOMAIN EmergencyRequest :
    EmergencyRequest[r].ambulanceId # Null
      <=> EmergencyRequest[r].status
            \in {"accepted", "in_progress", "completed"}

PendingRequestsMsg(ids) ==
  [Msg("pending-requests", "socket", Null) EXCEPT !.ids = ids]

\* C21: the query of get-pending-requests yields exactly the requests that
\* are persisted as pending when the store executes it, writes nothing and
\* sends nothing; the handler then returns having sent pending-requests with
\* those requests to its own socket and nothing else, with a cache entry for
\* each of them and the store untouched.
C21_ListsPendingToSender ==
  [][ /\ \A h \in InFlight' :
           (h.op = "get-pending-requests" /\ Arrived(h))
           => /\ EmergencyRequest' = EmergencyRequest
              /\ Ambulance' = Ambulance
              /\ h.out = {}
              /\ h.pc = "found"
                 => h.found = {r \in DOMAIN EmergencyRequest :
                                 EmergencyRequest[r].status = "pending"}
      /\ ( /\ finished'.op = "get-pending-requests"
           /\ finished'.result # StoreError )
         => /\ BagIn([finished' EXCEPT !.pc = "found", !.out = {}], handlers)
            /\ finished'.out = {PendingRequestsMsg(finished'.found)}
            /\ Receivers(finished', PendingRequestsMsg(finished'.found))
                 = {finished'.conn}
            /\ finished'.found \subseteq DOMAIN pendingRequests'
            /\ EmergencyRequest' = EmergencyRequest
            /\ Ambulance' = Ambulance
    ]_vars

C21_Witness ==
  /\ finished.op = "get-pending-requests"
  /\ finished.conn = "d2"
  /\ finished.out = {PendingRequestsMsg({"r1"})}
  /\ EmergencyRequest["r1"].status = "pending"
  /\ "r1" \in DOMAIN pendingRequests
  /\ pendingRequests["r1"].socketId = "d2"

\* the invocation h leaves its present position in this step
Left(h) == CopiesIn(h, handlers') < CopiesIn(h, handlers)

\* map m2 is map m1 without key k, and is m1 when m1 has no key k
Without(m1, k, m2) ==
  /\ DOMAIN m2 = DOMAIN m1 \ {k}
  /\ \A x \in DOMAIN m2 : m2[x] = m1[x]
  /\ k \notin DOMAIN m1 => m2 = m1

\* C22: the delete of update-status to offline, of the driver disconnect and
\* of accept-request removes the key when it is present and leaves the map
\* as it is when the key is absent, and the handler returns normally either
\* way.
C22_DeleteAbsentIsNoop ==
  [][\A h \in InFlight :
       (h.pc = "updated" /\ Left(h))
       => /\ finished' = [finished' EXCEPT !.conn = h.conn, !.op = h.op,
                                           !.pc = "done",
                                           !.result = h.result]
          /\ finished'.result # StoreError
          /\ ( /\ h.op = "update-status"
               /\ h.result = "doc"
               /\ h.status \in {"offline", "at_hospital"} )
             => Without(activeDrivers, h.conn, activeDrivers')
          /\ h.op = "disconnect"
             => Without(activeDrivers, h.conn, activeDrivers')
          /\ h.op = "accept-request"
             => Without(pendingRequests, h.requestId, pendingRequests')
    ]_vars

C22_Witness ==
  /\ started = 2
  /\ finished.op = "update-status"
  /\ finished.conn = "d2"
  /\ finished.status = "offline"
  /\ finished.result = "doc"
  /\ DOMAIN activeDrivers = {"d1"}

\* C23: the record a valid emergency-request persists has patientCount "1"
\* when the request leaves patientCount out and criticalLevel "medium" when
\* it leaves criticalLevel out, and otherwise the values the request
\* supplies.
C23_DefaultsApplied ==
  [][\A h \in InFlight' :
       (h.op = "emergency-request" /\ h.pc = "saved" /\ Arrived(h))
       => /\ h.requestId \notin DOMAIN EmergencyRequest
          /\ h.requestId \in DOMAIN EmergencyRequest'
          /\ EmergencyRequest'[h.requestId].patientCount =
               (IF h.patientCount = Missing THEN "1" ELSE h.patientCount)
          /\ EmergencyRequest'[h.requestId].criticalLevel =
               (IF h.criticalLevel = Missing THEN "medium"
                ELSE h.criticalLevel)
    ]_vars

C23_Witness ==
  /\ "r1" \in DOMAIN EmergencyRequest
  /\ "r2" \in DOMAIN EmergencyRequest
  /\ EmergencyRequest["r1"].patientCount = "1"
  /\ EmergencyRequest["r1"].criticalLevel = "high"
  /\ EmergencyRequest["r2"].patientCount = "3"
  /\ EmergencyRequest["r2"].criticalLevel = "medium"
  /\ \E h \in InFlight :
       /\ h.requestId = "r1"
       /\ h.pc = "saved"
       /\ h.patientCount = Missing
       /\ h.criticalLevel = "high"

\* the Ambulance record /register creates
Registered == [status |-> "offline", latitude |-> Null, longitude |-> Null]

\* C24: when an accept-request handler returns after its update succeeded,
\* the Ambulance record of the vehicle it named is no longer the one it was
\* before the accept.  No other handler of this specification writes an
\* Ambulance record, so before the accept it is the registered one.
C24_AcceptUpdatesVehicle ==
  ( /\ finished.op = "accept-request"
    /\ RequestRemoved(finished.requestId) \in finished.out )
  => Ambulance[finished.vehicleId] # Registered

\* the cache entries this step inserted or overwrote
Rewritten ==
  {r \in DOMAIN pendingRequests' :
     r \notin DOMAIN pendingRequests
       \/ pendingRequests'[r] # pendingRequests[r]}

\* C25: a step of an accept-request handler inserts no entry into the
\* pending-request cache and overwrites none.
C25_AcceptLeavesCacheEntries ==
  [][(\E h \in InFlight : h.op = "accept-request" /\ Left(h))
       => Rewritten = {}
    ]_vars

\* C26: an accept-request handler returns having sent its driver either
\* accepted-progress or accept-error, and not both.
C26_OneOutcome ==
  finished.op = "accept-request"
  => ( (AcceptedProgress \in finished.out)
       <=> ~ (\E m \in finished.out : m.ev = "accept-error") )

AcceptError(text) == Msg("accept-error", "socket", text)

\* C27: the query of accept-request writes nothing; an accept-request whose
\* request is neither among the pending requests it found nor in the cache
\* returns having sent its driver accept-error "Request no longer
\* available" and nothing else, with the store and the rooms as they were.
C27_UnavailableRejected ==
  [][ /\ \A h \in InFlight' :
           (h.op = "accept-request" /\ h.pc = "found" /\ Arrived(h))
           => /\ EmergencyRequest' = EmergencyRequest
              /\ h.out = {}
      /\ \A h \in InFlight :
           ( /\ h.op = "accept-request" /\ h.pc = "found" /\ Left(h)
             /\ h.requestId \notin h.found
             /\ h.requestId \notin DOMAIN pendingRequests )
           => /\ finished' =
                   [h EXCEPT !.pc = "done",
                             !.result = "Request no longer available",
                             !.out = {AcceptError(
                                        "Request no longer available")}]
              /\ Receivers(h, AcceptError("Request no longer available"))
                   = {h.conn}
              /\ EmergencyRequest' = EmergencyRequest
              /\ rooms' = rooms
              /\ handlers' = handlers (-) SetToBag({h})
    ]_vars

C27_Witness ==
  /\ finished.op = "accept-request"
  /\ finished.conn = "d2"
  /\ finished.out = {AcceptError("Request no longer available")}
  /\ "r1" \in DOMAIN EmergencyRequest
  /\ EmergencyRequest["r1"].status = "accepted"
  /\ rooms["r1"] = {"d1"}
  /\ "r1" \notin DOMAIN pendingRequests

\* C28: the update of an accept-request handler is executed on a request
\* whose persisted status is pending.
C28_AcceptOnlyFromPending ==
  [][\A h \in InFlight :
       ( /\ h.op = "accept-request" /\ h.pc = "update" /\ Left(h)
         /\ Arrived([h EXCEPT !.pc = "updated", !.result = "doc"]) )
       => EmergencyRequest[h.requestId].status = "pending"
    ]_vars

ProgressDisable == Msg("accepted-progress-disable", "socket", Null)

\* C29: the store write of update-request-status sets the status of the
\* request to the one supplied, whatever it was, and a write that throws
\* leaves the store as it was; the handler then returns having sent
\* accepted-progress-disable to its own socket and nothing else, or nothing
\* at all when the write threw.  No step of the handler changes the
\* pending-request cache, activeDrivers or an Ambulance record.
C29_StatusWrittenUnchecked ==
  [][ /\ \A h \in InFlight' :
           (h.op = "update-request-status" /\ Arrived(h))
           => /\ h.out = {}
              /\ ( h.pc = "updated"
                   /\ h.requestId \in DOMAIN EmergencyRequest )
                 => EmergencyRequest'[h.requestId].status = h.status
              /\ h.pc = "threw" => EmergencyRequest' = EmergencyRequest
              /\ pendingRequests' = pendingRequests
              /\ activeDrivers' = activeDrivers
              /\ Ambulance' = Ambulance
      /\ finished'.op = "update-request-status"
         => /\ finished'.out =
                 (IF finished'.result = StoreError THEN {}
                  ELSE {ProgressDisable})
            /\ Receivers(finished', ProgressDisable) = {finished'.conn}
            /\ EmergencyRequest' = EmergencyRequest
            /\ pendingRequests' = pendingRequests
            /\ activeDrivers' = activeDrivers
            /\ Ambulance' = Ambulance
    ]_vars

C29_Witness ==
  /\ finished.op = "update-request-status"
  /\ finished.status = "in_progress"
  /\ finished.out = {ProgressDisable}
  /\ finished.requestId \in DOMAIN EmergencyRequest
  /\ EmergencyRequest[finished.requestId].status = "in_progress"
  /\ EmergencyRequest[finished.requestId].ambulanceId = Null
  /\ finished.requestId \in DOMAIN pendingRequests

\* C30: the close of a client socket changes neither the store nor the maps
\* and sends nothing; its only effect is that the socket leaves its rooms.
\* An accept-request whose query found its request pending goes on to
\* accepted-progress whether or not the client is connected, adds no closed
\* client socket to the room, and no message of an accept-request handler
\* reaches a client socket.
C30_ClientCloseChangesNothing ==
  [][ /\ \A c \in Clients :
           (conns[c] = "open" /\ conns'[c] = "closed")
           => /\ EmergencyRequest' = EmergencyRequest
              /\ Ambulance' = Ambulance
              /\ pendingRequests' = pendingRequests
              /\ activeDrivers' = activeDrivers
              /\ rooms' = LeaveAll(rooms, c)
              /\ handlers' = handlers
              /\ finished'.out = {}
      /\ \A h \in InFlight :
           ( /\ h.op = "accept-request" /\ h.pc = "found" /\ Left(h)
             /\ h.requestId \in h.found )
           => /\ Arrived([h EXCEPT !.pc = "update",
                                   !.out = {AcceptedProgress}])
              /\ \A c \in Clients :
                   (conns[c] = "closed" /\ c \notin rooms[h.requestId])
                   => c \notin rooms'[h.requestId]
      /\ \A h \in InFlight' \cup {finished'} :
           h.op = "accept-request"
           => \A m \in h.out : Receivers(h, m) \cap Clients = {}
    ]_vars

C30_Witness ==
  /\ conns["c1"] = "closed"
  /\ started = 2
  /\ finished.op = "accept-request"
  /\ finished.out = {AcceptedProgress, RequestRemoved("r1")}
  /\ EmergencyRequest["r1"].status = "accepted"
  /\ rooms["r1"] = {finished.conn}

\* C31: when no handler is suspended, every activeDrivers entry is that of
\* a connected driver socket and names a vehicle whose persisted status is
\* neither offline nor at_hospital; and when a disconnect handler returns
\* having set its vehicle offline, no activeDrivers entry names that vehicle.
C31_RegistryMatchesStore ==
  /\ InFlight = {}
     => \A d \in DOMAIN activeDrivers :
          /\ conns[d] = "open"
          /\ Ambulance[activeDrivers[d].vehicleId].status
               \notin {"offline", "at_hospital"}
  /\ (finished.op = "disconnect" /\ finished.result = "doc")
     => \A d \in DOMAIN activeDrivers :
          activeDrivers[d].vehicleId # finished.vehicleId

\* connection c is registered for vehicle v
RegisteredFor(c, v) ==
  c \in DOMAIN activeDrivers /\ activeDrivers[c].vehicleId = v

\* C32: the store write of an update-status from a connection registered for
\* another vehicle, and of a location-update from a connection that is not
\* registered for the vehicle it names, leaves the Ambulance collection as it
\* is; and such a handler returns with nothing broadcast.
C32_OnlyOwnVehicle ==
  [][ /\ \A h \in InFlight' :
           ( /\ Arrived(h)
             /\ h.pc = "updated"
             /\ \/ /\ h.op = "update-status"
                   /\ h.conn \in DOMAIN activeDrivers
                   /\ ~ RegisteredFor(h.conn, h.vehicleId)
                \/ /\ h.op = "location-update"
                   /\ ~ RegisteredFor(h.conn, h.vehicleId) )
           => Ambulance' = Ambulance
      /\ ( /\ finished'.op = "location-update"
           /\ ~ RegisteredFor(finished'.conn, finished'.vehicleId) )
         => \A m \in finished'.out : ~ Broadcast(m)
    ]_vars

\* C33: an update-status or location-update that names a vehicleId without
\* an Ambulance record returns with activeDrivers as it was and with neither
\* remove-ambulance nor ambulance-location sent.
C33_UnknownVehicleNoEffect ==
  [][( /\ finished'.op \in {"update-status", "location-update"}
       /\ finished'.vehicleId \notin DOMAIN Ambulance )
     => /\ activeDrivers' = activeDrivers
        /\ \A m \in finished'.out :
             m.ev \notin {"remove-ambulance", "ambulance-location"}
    ]_vars

\* C34: when a location-update whose store write succeeded returns and its
\* connection has an activeDrivers entry, the entry holds the latitude and
\* longitude reported; and an update-status to a status other than offline
\* and at_hospital leaves the latitude and longitude of an existing entry as
\* they were.
C34_RegistryTracksPosition ==
  [][ /\ ( /\ finished'.op = "location-update"
           /\ finished'.result # StoreError
           /\ finished'.conn \in DOMAIN activeDrivers' )
         => /\ activeDrivers'[finished'.conn].latitude = finished'.latitude
            /\ activeDrivers'[finished'.conn].longitude = finished'.longitude
      /\ ( /\ finished'.op = "update-status"
           /\ finished'.result = "doc"
           /\ finished'.status \notin {"offline", "at_hospital"}
           /\ finished'.conn \in DOMAIN activeDrivers )
         => /\ activeDrivers'[finished'.conn].latitude
                 = activeDrivers[finished'.conn].latitude
            /\ activeDrivers'[finished'.conn].longitude
                 = activeDrivers[finished'.conn].longitude
    ]_vars

\* C35: no two distinct requests whose persisted status is accepted or
\* in_progress carry the same vehicle reference.
C35_OneRequestPerVehicle ==
  \A r1 \in DOMAIN EmergencyRequest : \A r2 \in DOMAIN EmergencyRequest :
    ( /\ r1 # r2
      /\ EmergencyRequest[r1].status \in {"accepted", "in_progress"}
      /\ EmergencyRequest[r2].status \in {"accepted", "in_progress"} )
    => EmergencyRequest[r1].ambulanceId # EmergencyRequest[r2].ambulanceId

====
